---- MODULE Spec2Model ----
(***************************************************************************)
(* A model of @mightylittle/transaction-log: MemoryBatchedTransactionLog   *)
(* and MemorySimpleTransactionLog.  Every method is an operator from the   *)
(* object's fields (a record L) and the call's arguments to an outcome     *)
(* [log, err, ret, hooks]; the actions apply these operators to the one    *)
(* log instance of the behaviour and record the call in `last`.            *)
(***************************************************************************)
EXTENDS Integers, Sequences, FiniteSets, TLC

(* ------------------------------ bounds -------------------------------- *)

\* Most transactions (buffered + committed) a log instance holds.
MaxTxn == 2
\* Largest value of the monotonic clock behind performance.now().
MaxTime == 1

\* Most calls a caller makes back-to-back before it lets the promise jobs run.
MaxPending == 2

\* Application data (the type parameter T).
Data == {"a", "b"}

(* -------------------------- error-messages.ts -------------------------- *)

INVALID_SEQUENCE_ID_MESSAGE == "Invalid sequence-ID: sequences start with 1."
LOG_CLOSED_MESSAGE == "Cannot perform operation: transaction-log is closed."
LOG_ALREADY_OPEN_MESSAGE == "Transaction-log is already open."
LOG_ALREADY_CLOSED_MESSAGE == "Transaction-log is already closed."
LOG_OPEN_CANNOT_CLEAR_MESSAGE == "Transaction-log is open; cannot clear."
BUFFER_EMPTY_CANNOT_COMMIT_MESSAGE == "The transaction buffer is empty; cannot commit."
INVALID_COMMIT_MESSAGE == "Invalid commit."

\* The outcome of a call that threw nothing.
NoError == "none"

(* --------------------------- language values --------------------------- *)

\* An optional argument that was not passed (finishId?, simulateTime?) is <<>>;
\* a passed one is <<v>>.
Omitted == <<>>

\* What reading an array past its end gives.
Undefined == [undefined |-> TRUE]

Min(a, b) == IF a < b THEN a ELSE b

Max(a, b) == IF a > b THEN a ELSE b

\* `if (finishId)` on an optional number: undefined and 0 are falsy.
TruthyNumber(opt) == opt # Omitted /\ opt[1] # 0

\* `if (simulateTime)` on an optional boolean.
TruthyBoolean(opt) == opt # Omitted /\ opt[1]

\* arr[i] with a 0-based index.
At(arr, i) == IF i >= 0 /\ i < Len(arr) THEN arr[i + 1] ELSE Undefined

\* Array.prototype.slice(start, end): negative indices count from the end, both
\* ends are clamped to the array, an empty or inverted range gives [].
Slice(arr, start, end) ==
  LET len == Len(arr)
      k == IF start < 0 THEN Max(len + start, 0) ELSE Min(start, len)
      relEnd == IF end = Omitted THEN len ELSE end[1]
      final == IF relEnd < 0 THEN Max(len + relEnd, 0) ELSE Min(relEnd, len)
  IN [j \in 1..Max(final - k, 0) |-> arr[k + j]]

\* Array.prototype.indexOf: the 0-based index of the first element equal to x,
\* or -1.  (Commit objects are compared by identity in the code; two stored
\* commits never have equal contents, so equality of contents finds the same one.)
IndexOf(arr, x) ==
  IF \E i \in 1..Len(arr) : arr[i] = x
  THEN (CHOOSE i \in 1..Len(arr) : arr[i] = x /\ \A j \in 1..(i - 1) : arr[j] # x) - 1
  ELSE -1

(* ------------------------------ outcomes ------------------------------- *)

\* A call that returned `ret`, leaving the object as L and having fired `hooks`.
Return(L, ret, hooks) == [log |-> L, err |-> NoError, ret |-> ret, hooks |-> hooks]

\* A call that threw new Error(msg) with the object as L.
Throw(L, msg) == [log |-> L, err |-> msg, ret |-> <<>>, hooks |-> <<>>]

\* A call that has not returned yet.
Pending == "pending"

Running(L) == [log |-> L, err |-> Pending, ret |-> <<>>, hooks |-> <<>>]

\* this.#callbacks.<name>?.apply(this, args): the hook runs only when it was
\* configured, and sees the object as it is at that point.
Fire(L, name, args) ==
  IF name \in L.callbacks THEN <<[hook |-> name, args |-> args, seen |-> L]>> ELSE <<>>

(* -------------------- MemoryBatchedTransactionLog ---------------------- *)

\* The hooks of BatchedTransactionLogCallbacks.
BatchedHooks == {"onopen", "onclose", "onclear", "onappend", "oncommit"}

\* The fields of a new MemoryBatchedTransactionLog(callbacks).
Batched_new(callbacks) ==
  [commits |-> <<>>, transactions |-> <<>>, buffer |-> <<>>,
   callbacks |-> callbacks, open |-> FALSE]

Batched_isOpen(L) == Return(L, L.open, <<>>)

\* An open() that calls onopen before it sets the flag.
Batched_open_hookFirst(L) ==
  IF L.open
  THEN Throw(L, LOG_ALREADY_OPEN_MESSAGE)
  ELSE LET L1 == [L EXCEPT !.open = TRUE]
       IN Return(L1, <<>>, Fire(L, "onopen", <<>>))

Batched_open(L) ==
  IF L.open
  THEN Throw(L, LOG_ALREADY_OPEN_MESSAGE)
  ELSE LET L1 == [L EXCEPT !.open = TRUE]
       IN Return(L1, <<>>, Fire(L1, "onopen", <<>>))

\* A close() that throws the uncommitted entries away.
Batched_close_dropsBuffer(L) ==
  IF ~L.open
  THEN Throw(L, LOG_ALREADY_CLOSED_MESSAGE)
  ELSE LET L1 == [L EXCEPT !.open = FALSE, !.buffer = <<>>]
       IN Return(L1, <<>>, Fire(L1, "onclose", <<>>))

Batched_close(L) ==
  IF ~L.open
  THEN Throw(L, LOG_ALREADY_CLOSED_MESSAGE)
  ELSE LET L1 == [L EXCEPT !.open = FALSE]
       IN Return(L1, <<>>, Fire(L1, "onclose", <<>>))

\* A clear() that forgets the commits.
Batched_clear_keepsCommits(L) ==
  IF L.open
  THEN Throw(L, LOG_OPEN_CANNOT_CLEAR_MESSAGE)
  ELSE LET L1 == [L EXCEPT !.transactions = <<>>, !.buffer = <<>>]
       IN Return(L1, <<>>, Fire(L1, "onclear", <<>>))

Batched_clear(L) ==
  IF L.open
  THEN Throw(L, LOG_OPEN_CANNOT_CLEAR_MESSAGE)
  ELSE LET L1 == [L EXCEPT !.commits = <<>>, !.transactions = <<>>, !.buffer = <<>>]
       IN Return(L1, <<>>, Fire(L1, "onclear", <<>>))

\* A commit() that leaves the committed entries in the buffer.
Batched_commit_keepsBuffer(L, t) ==
  IF ~L.open
  THEN Throw(L, LOG_CLOSED_MESSAGE)
  ELSE IF Len(L.buffer) = 0
  THEN Throw(L, BUFFER_EMPTY_CANNOT_COMMIT_MESSAGE)
  ELSE LET transactionIds ==
             [i \in 1..Len(L.buffer) |-> Len(L.transactions) + (i - 1) + 1]
           commit == [time |-> t, transactions |-> transactionIds]
           L1 == [L EXCEPT !.commits = Append(L.commits, commit),
                           !.transactions = L.transactions \o L.buffer]
       IN Return(L1, <<>>, Fire(L1, "oncommit", <<commit>>))

\* A commit() that numbers the transactions from 0.
Batched_commit_zeroBasedIds(L, t) ==
  IF ~L.open
  THEN Throw(L, LOG_CLOSED_MESSAGE)
  ELSE IF Len(L.buffer) = 0
  THEN Throw(L, BUFFER_EMPTY_CANNOT_COMMIT_MESSAGE)
  ELSE LET transactionIds ==
             [i \in 1..Len(L.buffer) |-> Len(L.transactions) + (i - 1)]
           commit == [time |-> t, transactions |-> transactionIds]
           L1 == [L EXCEPT !.commits = Append(L.commits, commit),
                           !.transactions = L.transactions \o L.buffer,
                           !.buffer = <<>>]
       IN Return(L1, <<>>, Fire(L1, "oncommit", <<commit>>))

\* A commit() without the empty-buffer check.
Batched_commit_noEmptyCheck(L, t) ==
  IF ~L.open
  THEN Throw(L, LOG_CLOSED_MESSAGE)
  ELSE LET transactionIds ==
             [i \in 1..Len(L.buffer) |-> Len(L.transactions) + (i - 1) + 1]
           commit == [time |-> t, transactions |-> transactionIds]
           L1 == [L EXCEPT !.commits = Append(L.commits, commit),
                           !.transactions = L.transactions \o L.buffer,
                           !.buffer = <<>>]
       IN Return(L1, <<>>, Fire(L1, "oncommit", <<commit>>))

\* A commit() that puts the buffered entries ahead of the committed ones.
Batched_commit_prependsBuffer(L, t) ==
  IF ~L.open
  THEN Throw(L, LOG_CLOSED_MESSAGE)
  ELSE IF Len(L.buffer) = 0
  THEN Throw(L, BUFFER_EMPTY_CANNOT_COMMIT_MESSAGE)
  ELSE LET transactionIds ==
             [i \in 1..Len(L.buffer) |-> Len(L.transactions) + (i - 1) + 1]
           commit == [time |-> t, transactions |-> transactionIds]
           L1 == [L EXCEPT !.commits = Append(L.commits, commit),
                           !.transactions = L.buffer \o L.transactions,
                           !.buffer = <<>>]
       IN Return(L1, <<>>, Fire(L1, "oncommit", <<commit>>))

\* A commit() that calls oncommit before it resets the buffer.
Batched_commit_hookBeforeReset(L, t) ==
  IF ~L.open
  THEN Throw(L, LOG_CLOSED_MESSAGE)
  ELSE IF Len(L.buffer) = 0
  THEN Throw(L, BUFFER_EMPTY_CANNOT_COMMIT_MESSAGE)
  ELSE LET transactionIds ==
             [i \in 1..Len(L.buffer) |-> Len(L.transactions) + (i - 1) + 1]
           commit == [time |-> t, transactions |-> transactionIds]
           L1 == [L EXCEPT !.commits = Append(L.commits, commit),
                           !.transactions = L.transactions \o L.buffer]
           L2 == [L1 EXCEPT !.buffer = <<>>]
       IN Return(L2, <<>>, Fire(L1, "oncommit", <<commit>>))

\* A commit() that numbers each batch from 1, without the count of what is
\* already committed.
Batched_commit_idsFromOne(L, t) ==
  IF ~L.open
  THEN Throw(L, LOG_CLOSED_MESSAGE)
  ELSE IF Len(L.buffer) = 0
  THEN Throw(L, BUFFER_EMPTY_CANNOT_COMMIT_MESSAGE)
  ELSE LET transactionIds == [i \in 1..Len(L.buffer) |-> (i - 1) + 1]
           commit == [time |-> t, transactions |-> transactionIds]
           L1 == [L EXCEPT !.commits = Append(L.commits, commit),
                           !.transactions = L.transactions \o L.buffer,
                           !.buffer = <<>>]
       IN Return(L1, <<>>, Fire(L1, "oncommit", <<commit>>))

\* commit(), with t the value performance.now() returns.
Batched_commit(L, t) ==
  IF ~L.open
  THEN Throw(L, LOG_CLOSED_MESSAGE)
  ELSE IF Len(L.buffer) = 0
  THEN Throw(L, BUFFER_EMPTY_CANNOT_COMMIT_MESSAGE)
  ELSE LET transactionIds ==
             [i \in 1..Len(L.buffer) |-> Len(L.transactions) + (i - 1) + 1]
           commit == [time |-> t, transactions |-> transactionIds]
           L1 == [L EXCEPT !.commits = Append(L.commits, commit),
                           !.transactions = L.transactions \o L.buffer,
                           !.buffer = <<>>]
       IN Return(L1, <<>>, Fire(L1, "oncommit", <<commit>>))

Batched_countCommits(L) ==
  IF ~L.open
  THEN Throw(L, LOG_CLOSED_MESSAGE)
  ELSE Return(L, Len(L.commits), <<>>)

Batched_countTransactions(L) ==
  IF ~L.open
  THEN Throw(L, LOG_CLOSED_MESSAGE)
  ELSE Return(L, Len(L.transactions), <<>>)

\* An append(data) that stores the entry as committed at once.
Batched_append_pushesCommitted(L, data, t) ==
  IF ~L.open
  THEN Throw(L, LOG_CLOSED_MESSAGE)
  ELSE LET txn == [time |-> t, data |-> data]
           L1 == [L EXCEPT !.transactions = Append(L.transactions, txn)]
       IN Return(L1, <<>>, Fire(L1, "onappend", <<data>>))

\* append(data), with t the value performance.now() returns.
Batched_append(L, data, t) ==
  IF ~L.open
  THEN Throw(L, LOG_CLOSED_MESSAGE)
  ELSE LET txn == [time |-> t, data |-> data]
           L1 == [L EXCEPT !.buffer = Append(L.buffer, txn)]
       IN Return(L1, <<>>, Fire(L1, "onappend", <<data>>))

\* A .map callback that resolves transaction IDs as if they were 0-based indices.
Batched_commitInfo_idAsIndex(L, commit) ==
  LET commitId == IndexOf(L.commits, commit) + 1
  IN IF commitId = 0
     THEN [invalid |-> TRUE]
     ELSE [id |-> commitId,
           time |-> commit.time,
           transactions |->
             [j \in 1..Len(commit.transactions) |->
                At(L.transactions, commit.transactions[j])]]

\* The .map callback of getSeqRangeCommits: a commit to its CommitInfo, or the
\* InvalidCommit marker where the callback throws.
Batched_commitInfo(L, commit) ==
  LET commitId == IndexOf(L.commits, commit) + 1
  IN IF commitId = 0
     THEN [invalid |-> TRUE]
     ELSE [id |-> commitId,
           time |-> commit.time,
           transactions |->
             [j \in 1..Len(commit.transactions) |->
                At(L.transactions, commit.transactions[j] - 1)]]

\* A getSeqRangeCommits that validates startId before it looks at the open flag.
Batched_getSeqRangeCommits_checksIdFirst(L, startId, finishId) ==
  IF startId < 1
  THEN Throw(L, INVALID_SEQUENCE_ID_MESSAGE)
  ELSE IF ~L.open
  THEN Throw(L, LOG_CLOSED_MESSAGE)
  ELSE LET selected == IF TruthyNumber(finishId)
                       THEN Slice(L.commits, startId - 1, finishId)
                       ELSE Slice(L.commits, startId - 1, Omitted)
           infos == [j \in 1..Len(selected) |-> Batched_commitInfo(L, selected[j])]
       IN IF \E j \in 1..Len(infos) : infos[j] = [invalid |-> TRUE]
          THEN Throw(L, INVALID_COMMIT_MESSAGE)
          ELSE Return(L, infos, <<>>)

Batched_getSeqRangeCommits(L, startId, finishId) ==
  IF ~L.open
  THEN Throw(L, LOG_CLOSED_MESSAGE)
  ELSE IF startId < 1
  THEN Throw(L, INVALID_SEQUENCE_ID_MESSAGE)
  ELSE LET selected == IF TruthyNumber(finishId)
                       THEN Slice(L.commits, startId - 1, finishId)
                       ELSE Slice(L.commits, startId - 1, Omitted)
           infos == [j \in 1..Len(selected) |-> Batched_commitInfo(L, selected[j])]
       IN IF \E j \in 1..Len(infos) : infos[j] = [invalid |-> TRUE]
          THEN Throw(L, INVALID_COMMIT_MESSAGE)
          ELSE Return(L, infos, <<>>)

\* A getSeqRangeTransactions that takes finishId as exclusive.
Batched_getSeqRangeTransactions_exclusive(L, startId, finishId) ==
  IF ~L.open
  THEN Throw(L, LOG_CLOSED_MESSAGE)
  ELSE IF startId < 1
  THEN Throw(L, INVALID_SEQUENCE_ID_MESSAGE)
  ELSE IF TruthyNumber(finishId)
  THEN Return(L, Slice(L.transactions, startId - 1, <<finishId[1] - 1>>), <<>>)
  ELSE Return(L, Slice(L.transactions, startId - 1, Omitted), <<>>)

Batched_getSeqRangeTransactions(L, startId, finishId) ==
  IF ~L.open
  THEN Throw(L, LOG_CLOSED_MESSAGE)
  ELSE IF startId < 1
  THEN Throw(L, INVALID_SEQUENCE_ID_MESSAGE)
  ELSE IF TruthyNumber(finishId)
  THEN Return(L, Slice(L.transactions, startId - 1, finishId), <<>>)
  ELSE Return(L, Slice(L.transactions, startId - 1, Omitted), <<>>)

(* --------------------- MemorySimpleTransactionLog ---------------------- *)

\* The hooks of SimpleTransactionLogCallbacks.
SimpleHooks == {"onopen", "onclose", "onclear", "onappend"}

\* The fields of a new MemorySimpleTransactionLog(callbacks).
Simple_new(callbacks) ==
  [transactions |-> <<>>, callbacks |-> callbacks, open |-> FALSE]

Simple_isOpen(L) == Return(L, L.open, <<>>)

Simple_open(L) ==
  IF L.open
  THEN Throw(L, LOG_ALREADY_OPEN_MESSAGE)
  ELSE LET L1 == [L EXCEPT !.open = TRUE]
       IN Return(L1, <<>>, Fire(L1, "onopen", <<>>))

\* A close() that accepts a log that is already closed.
Simple_close_idempotent(L) ==
  LET L1 == [L EXCEPT !.open = FALSE]
  IN Return(L1, <<>>, Fire(L1, "onclose", <<>>))

Simple_close(L) ==
  IF ~L.open
  THEN Throw(L, LOG_ALREADY_CLOSED_MESSAGE)
  ELSE LET L1 == [L EXCEPT !.open = FALSE]
       IN Return(L1, <<>>, Fire(L1, "onclose", <<>>))

\* A clear() that does not refuse an Open log.
Simple_clear_allowsOpen(L) ==
  LET L1 == [L EXCEPT !.transactions = <<>>]
  IN Return(L1, <<>>, Fire(L1, "onclear", <<>>))

Simple_clear(L) ==
  IF L.open
  THEN Throw(L, LOG_OPEN_CANNOT_CLEAR_MESSAGE)
  ELSE LET L1 == [L EXCEPT !.transactions = <<>>]
       IN Return(L1, <<>>, Fire(L1, "onclear", <<>>))

Simple_countTransactions(L) ==
  IF ~L.open
  THEN Throw(L, LOG_CLOSED_MESSAGE)
  ELSE Return(L, Len(L.transactions), <<>>)

\* An append(data) that puts the entry at the front (unshift for push).
Simple_append_unshift(L, data, t) ==
  IF ~L.open
  THEN Throw(L, LOG_CLOSED_MESSAGE)
  ELSE LET txn == [time |-> t, data |-> data]
           L1 == [L EXCEPT !.transactions = <<txn>> \o L.transactions]
       IN Return(L1, <<>>, Fire(L1, "onappend", <<data>>))

\* append(data), with t the value performance.now() returns.
Simple_append(L, data, t) ==
  IF ~L.open
  THEN Throw(L, LOG_CLOSED_MESSAGE)
  ELSE LET txn == [time |-> t, data |-> data]
           L1 == [L EXCEPT !.transactions = Append(L.transactions, txn)]
       IN Return(L1, <<>>, Fire(L1, "onappend", <<data>>))

\* A getSeqRangeTransactions that accepts startId 0.
Simple_getSeqRangeTransactions_allowsZero(L, startId, finishId) ==
  IF ~L.open
  THEN Throw(L, LOG_CLOSED_MESSAGE)
  ELSE IF startId < 0
  THEN Throw(L, INVALID_SEQUENCE_ID_MESSAGE)
  ELSE IF TruthyNumber(finishId)
  THEN Return(L, Slice(L.transactions, startId - 1, finishId), <<>>)
  ELSE Return(L, Slice(L.transactions, startId - 1, Omitted), <<>>)

Simple_getSeqRangeTransactions(L, startId, finishId) ==
  IF ~L.open
  THEN Throw(L, LOG_CLOSED_MESSAGE)
  ELSE IF startId < 1
  THEN Throw(L, INVALID_SEQUENCE_ID_MESSAGE)
  ELSE IF TruthyNumber(finishId)
  THEN Return(L, Slice(L.transactions, startId - 1, finishId), <<>>)
  ELSE Return(L, Slice(L.transactions, startId - 1, Omitted), <<>>)

(* ------------------------------- replay -------------------------------- *)

\* The check replay() starts with: it throws, or the call goes on to its loop.
Replay_check(L) ==
  IF ~L.open
  THEN Throw(L, LOG_CLOSED_MESSAGE)
  ELSE Running(L)

\* The locals of a replay() call that passed the closed check: the arguments, the
\* loop index i, transactionsLength (read once, simulateTime only), the data the
\* visitor was called with and the delays handed to setTimeout, in call order.
\* `touches` tells whether the visitor passed in is one that writes to the log;
\* `pre` is the object as it was when replay was called.  Under simulateTime,
\* `calls` holds the clock at each visitor call and `sets` the clock at each
\* setTimeout call.
Replay_enter(L, simulateTime, touches) ==
  [active |-> TRUE, simulateTime |-> simulateTime, i |-> 0,
   transactionsLength |-> IF TruthyBoolean(simulateTime) THEN Len(L.transactions) ELSE 0,
   visits |-> <<>>, timers |-> <<>>, touches |-> touches, pre |-> L,
   calls |-> <<>>, sets |-> <<>>]

\* A loop test that stops one short under simulateTime.
Replay_hasNext_skipsLast(L, r) ==
  IF TruthyBoolean(r.simulateTime)
  THEN r.i < r.transactionsLength - 1
  ELSE r.i < Len(L.transactions)

\* The loop test: `i < transactionsLength`, or the array iterator of `for ... of`,
\* which compares its index with the array's length at each step.
Replay_hasNext(L, r) ==
  IF TruthyBoolean(r.simulateTime)
  THEN r.i < r.transactionsLength
  ELSE r.i < Len(L.transactions)

\* The loop body up to the visitor's return: callback(txn.data), called with the
\* clock at `start`.
Replay_visit(L, r, start) ==
  [r EXCEPT !.visits = Append(r.visits, At(L.transactions, r.i).data),
            !.i = r.i + 1,
            !.calls = IF TruthyBoolean(r.simulateTime) THEN Append(r.calls, start)
                      ELSE r.calls]

\* The rest of the body under simulateTime: with nextTxn as read before the visitor
\* ran, and start and finish the clock around the visitor,
\* setTimeout(() => {}, nextTxn.time - txn.time - (finish - start)).
Replay_setTimeout(r, txn, nextTxn, start, finish) ==
  IF TruthyBoolean(r.simulateTime) /\ nextTxn # Undefined
  THEN [r EXCEPT !.timers = Append(r.timers, nextTxn.time - txn.time - (finish - start)),
                  !.sets = Append(r.sets, finish)]
  ELSE r

(* ---------------------------- state machine ---------------------------- *)

VARIABLES
  variant,     \* which class the instance is: "batched" or "simple"
  log,         \* the instance's private fields
  now,         \* the last value performance.now() returned
  last,        \* the latest call made: arguments, outcome, the object before it
  rp,          \* the replay() call in progress, if any
  history      \* history: the batches committed since construction or the last
               \* clear(), each with the time read at its commit

vars == <<variant, log, now, last, rp, history>>

\* performance.now() is monotonic: a read returns the previous value or a later one.
Tick(t) == {t, Max(t, Min(t + 1, MaxTime))}

\* The same for the reads replay makes around a visitor call, which may come one
\* tick later than any write to the log.
ReplayTick(t) == {t, Min(t + 1, MaxTime + 1)}

\* The startId values passed to the range queries: one below 1, and up to one past
\* the most the log holds.
StartIds == 0..(MaxTxn + 1)

\* The finishId values passed: omitted, negative, 0, and up to one past the most the
\* log holds.
FinishIds == {Omitted} \cup {<<n>> : n \in (-1)..(MaxTxn + 1)}

Idle == [active |-> FALSE]

\* Whether the caller may add one more transaction within the bound.
HasRoom(L) ==
  Len(L.transactions) + (IF variant = "batched" THEN Len(L.buffer) ELSE 0) < MaxTxn

\* Whether a visitor may add one more transaction: a visitor may take the log one
\* transaction past what the caller fills it to.
VisitorHasRoom(L) ==
  Len(L.transactions) + (IF variant = "batched" THEN Len(L.buffer) ELSE 0) < MaxTxn + 1

\* The record of a completed call.
Completed(op, args, R, visits, timers, pre) ==
  [op |-> op, args |-> args, err |-> R.err, ret |-> R.ret, hooks |-> R.hooks,
   visits |-> visits, timers |-> timers, pre |-> pre]

\* A call of a method other than replay, with outcome R: it runs to completion in
\* one step.  `batch` is what the caller handed over for committing with this call:
\* the entries and the time read, or nothing.
Call(op, args, R, batch) ==
  /\ ~rp.active
  /\ log' = R.log
  /\ last' = Completed(op, args, R, <<>>, <<>>, log)
  /\ history' = IF R.err # NoError THEN history
                ELSE IF op = "clear" THEN <<>>
                ELSE history \o batch
  /\ UNCHANGED <<variant, rp>>

\* The entries a commit at time t makes permanent.
Batch(entries, t) == <<[time |-> t, batch |-> entries]>>

Init ==
  /\ variant \in {"batched", "simple"}
  /\ log = IF variant = "batched" THEN Batched_new(BatchedHooks) ELSE Simple_new(SimpleHooks)
  /\ now = 0
  /\ last = Completed("new", <<>>, Return(log, <<>>, <<>>), <<>>, <<>>, log)
  /\ rp = Idle
  /\ history = <<>>

BatchedIsOpen ==
  variant = "batched" /\ Call("isOpen", <<>>, Batched_isOpen(log), <<>>) /\ UNCHANGED now

BatchedOpen ==
  variant = "batched" /\ Call("open", <<>>, Batched_open(log), <<>>) /\ UNCHANGED now

BatchedClose ==
  variant = "batched" /\ Call("close", <<>>, Batched_close(log), <<>>) /\ UNCHANGED now

BatchedClear ==
  variant = "batched" /\ Call("clear", <<>>, Batched_clear(log), <<>>) /\ UNCHANGED now

\* The clock is read only once the two checks have passed.
BatchedCommit ==
  /\ variant = "batched"
  /\ \E t \in Tick(now) :
       /\ Call("commit", <<>>, Batched_commit(log, t), Batch(log.buffer, t))
       /\ now' = IF Batched_commit(log, t).err = NoError THEN t ELSE now

BatchedCountCommits ==
  variant = "batched" /\ Call("countCommits", <<>>, Batched_countCommits(log), <<>>)
    /\ UNCHANGED now

BatchedCountTransactions ==
  variant = "batched" /\ Call("countTransactions", <<>>, Batched_countTransactions(log), <<>>)
    /\ UNCHANGED now

BatchedAppend ==
  /\ variant = "batched"
  /\ log.open => HasRoom(log)
  /\ \E data \in Data, t \in Tick(now) :
       /\ Call("append", <<data>>, Batched_append(log, data, t), <<>>)
       /\ now' = IF Batched_append(log, data, t).err = NoError THEN t ELSE now

BatchedGetSeqRangeCommits ==
  /\ variant = "batched"
  /\ \E startId \in StartIds, finishId \in FinishIds :
       Call("getSeqRangeCommits", <<startId, finishId>>,
            Batched_getSeqRangeCommits(log, startId, finishId), <<>>)
  /\ UNCHANGED now

BatchedGetSeqRangeTransactions ==
  /\ variant = "batched"
  /\ \E startId \in StartIds, finishId \in FinishIds :
       Call("getSeqRangeTransactions", <<startId, finishId>>,
            Batched_getSeqRangeTransactions(log, startId, finishId), <<>>)
  /\ UNCHANGED now

SimpleIsOpen ==
  variant = "simple" /\ Call("isOpen", <<>>, Simple_isOpen(log), <<>>) /\ UNCHANGED now

SimpleOpen ==
  variant = "simple" /\ Call("open", <<>>, Simple_open(log), <<>>) /\ UNCHANGED now

SimpleClose ==
  variant = "simple" /\ Call("close", <<>>, Simple_close(log), <<>>) /\ UNCHANGED now

SimpleClear ==
  variant = "simple" /\ Call("clear", <<>>, Simple_clear(log), <<>>) /\ UNCHANGED now

SimpleCountTransactions ==
  variant = "simple" /\ Call("countTransactions", <<>>, Simple_countTransactions(log), <<>>)
    /\ UNCHANGED now

SimpleAppend ==
  /\ variant = "simple"
  /\ log.open => HasRoom(log)
  /\ \E data \in Data, t \in Tick(now) :
       /\ Call("append", <<data>>, Simple_append(log, data, t),
               Batch(<<[time |-> t, data |-> data]>>, t))
       /\ now' = IF Simple_append(log, data, t).err = NoError THEN t ELSE now

SimpleGetSeqRangeTransactions ==
  /\ variant = "simple"
  /\ \E startId \in StartIds, finishId \in FinishIds :
       Call("getSeqRangeTransactions", <<startId, finishId>>,
            Simple_getSeqRangeTransactions(log, startId, finishId), <<>>)
  /\ UNCHANGED now

\* replay(callback, simulateTime?) up to its loop: the closed check throws at once,
\* otherwise the loop starts.  The two classes' replay methods are the same text.
Replay ==
  /\ ~rp.active
  /\ \E simulateTime \in {Omitted, <<FALSE>>, <<TRUE>>}, touches \in BOOLEAN :
       /\ last' = Completed("replay", <<simulateTime, touches>>, Replay_check(log),
                            <<>>, <<>>, log)
       /\ rp' = IF Replay_check(log).err = Pending
                THEN Replay_enter(log, simulateTime, touches)
                ELSE rp
  /\ UNCHANGED <<variant, log, now, history>>

\* The data a writing visitor appends.
VisitorData == "b"

\* What a visitor that writes to the log does in one call: append(data) on the
\* simple log, append(data) then commit() on the batched one, reading the clock at
\* ta and tc.
VisitorWrites(L, data, ta, tc) ==
  IF variant = "batched"
  THEN Batched_commit(Batched_append(L, data, ta).log, tc).log
  ELSE Simple_append(L, data, ta).log

\* The values replay's clock read after t may return, and whether the visitor may
\* write to L: within the bounds of the caller's own writes, or one past them.
ReplayRead(beyond, t) == IF beyond THEN ReplayTick(t) ELSE Tick(t)

ReplayRoom(beyond, L) == IF beyond THEN VisitorHasRoom(L) ELSE HasRoom(L)

\* One iteration of replay's loop, the visitor's call included.
ReplayIteration(beyond) ==
  /\ rp.active
  /\ Replay_hasNext(log, rp)
  /\ \E start \in (IF TruthyBoolean(rp.simulateTime) THEN ReplayRead(beyond, now)
                   ELSE {now}),
        writes \in (IF rp.touches /\ ReplayRoom(beyond, log) THEN BOOLEAN ELSE {FALSE}) :
       \E ta \in (IF writes THEN Tick(start) ELSE {start}) :
         \E tc \in (IF writes /\ variant = "batched" THEN Tick(ta) ELSE {ta}) :
           \E finish \in (IF TruthyBoolean(rp.simulateTime) THEN ReplayRead(beyond, tc)
                          ELSE {tc}) :
             LET txn == At(log.transactions, rp.i)
                 nextTxn == At(log.transactions, rp.i + 1)
             IN /\ rp' = Replay_setTimeout(Replay_visit(log, rp, start), txn, nextTxn,
                                           start, finish)
                /\ log' = IF writes
                          THEN VisitorWrites(log, VisitorData, ta, tc)
                          ELSE log
                /\ history' = IF ~writes THEN history
                              ELSE IF variant = "batched"
                              THEN history \o Batch(Append(log.buffer, [time |-> ta, data |-> VisitorData]), tc)
                              ELSE history \o Batch(<<[time |-> ta, data |-> VisitorData]>>, ta)
                /\ now' = finish
  /\ UNCHANGED <<variant, last>>

\* An iteration in which the visitor and the clock stay within the bounds of the
\* caller's own writes.
ReplayStep == ReplayIteration(FALSE)

\* An iteration in which the visitor may add a transaction past what the caller
\* fills the log to, and the clock may run one tick on.
ReplayStepBeyond == ReplayIteration(TRUE)

\* The loop is over: replay's promise resolves.
ReplayReturn ==
  /\ rp.active
  /\ ~Replay_hasNext(log, rp)
  /\ last' = Completed("replay", <<rp.simulateTime, rp.touches>>,
                       Return(log, <<>>, <<>>), rp.visits, rp.timers, rp.pre)
  /\ rp' = Idle
  /\ UNCHANGED <<variant, log, now, history>>

\* The methods that run to completion in one step.
NextCalls ==
  \/ BatchedIsOpen
  \/ BatchedOpen
  \/ BatchedClose
  \/ BatchedClear
  \/ BatchedCommit
  \/ BatchedCountCommits
  \/ BatchedCountTransactions
  \/ BatchedAppend
  \/ BatchedGetSeqRangeCommits
  \/ BatchedGetSeqRangeTransactions
  \/ SimpleIsOpen
  \/ SimpleOpen
  \/ SimpleClose
  \/ SimpleClear
  \/ SimpleCountTransactions
  \/ SimpleAppend
  \/ SimpleGetSeqRangeTransactions

\* The lifecycle, the writes and replay.
NextReplay ==
  \/ BatchedOpen
  \/ BatchedClose
  \/ BatchedClear
  \/ BatchedCommit
  \/ BatchedAppend
  \/ SimpleOpen
  \/ SimpleClose
  \/ SimpleClear
  \/ SimpleAppend
  \/ Replay
  \/ ReplayStep
  \/ ReplayReturn

\* The same with iterations of the second kind.
NextReplayBeyond ==
  \/ BatchedOpen
  \/ BatchedClose
  \/ BatchedClear
  \/ BatchedCommit
  \/ BatchedAppend
  \/ SimpleOpen
  \/ SimpleClose
  \/ SimpleClear
  \/ SimpleAppend
  \/ Replay
  \/ ReplayStepBeyond
  \/ ReplayReturn

Next == NextCalls \/ NextReplay \/ NextReplayBeyond

\* Every method of both classes.
Spec == Init /\ [][Next]_vars

\* A caller that never calls replay.
SpecCalls == Init /\ [][NextCalls]_vars

\* A caller that opens, closes, clears, writes and replays.
SpecReplay == Init /\ [][NextReplay]_vars

\* The same caller with a visitor that may write past the caller's own fill and a
\* replay that may outlast the caller's clock.
SpecReplayBeyond == Init /\ [][NextReplayBeyond]_vars

(* ------------------- the two classes side by side --------------------- *)

\* One caller drives a MemorySimpleTransactionLog and a MemoryBatchedTransactionLog
\* with the same calls; on the batched log each successful append is at once
\* followed by commit().  Here `variant` is "pair", `log` holds both objects,
\* `last` the outcome of the latest call on each, and `rp` both replay() calls in
\* progress.

\* append(data) then, if it succeeded, commit(): the clock reads ta and tc.
Batched_appendCommit(L, data, ta, tc) ==
  LET appended == Batched_append(L, data, ta)
      committed == Batched_commit(appended.log, tc)
  IN IF appended.err # NoError
     THEN appended
     ELSE [log |-> committed.log, err |-> committed.err, ret |-> appended.ret,
           hooks |-> appended.hooks \o committed.hooks]

\* What the caller gets back from a call, and what its visitor was called with.
Outcome(R, visits) == [err |-> R.err, ret |-> R.ret, visits |-> visits]

InitPair ==
  /\ variant = "pair"
  /\ log = [simple |-> Simple_new(SimpleHooks), batched |-> Batched_new(BatchedHooks)]
  /\ now = 0
  /\ last = [op |-> "new", args |-> <<>>,
             simple |-> Outcome(Return(<<>>, <<>>, <<>>), <<>>),
             batched |-> Outcome(Return(<<>>, <<>>, <<>>), <<>>)]
  /\ rp = Idle
  /\ history = <<>>

\* The same call made on both objects, with outcomes RS and RB.
PairCall(op, args, RS, RB) ==
  /\ ~rp.active
  /\ log' = [simple |-> RS.log, batched |-> RB.log]
  /\ last' = [op |-> op, args |-> args,
              simple |-> Outcome(RS, <<>>), batched |-> Outcome(RB, <<>>)]
  /\ UNCHANGED <<variant, rp, history>>

PairOpen ==
  PairCall("open", <<>>, Simple_open(log.simple), Batched_open(log.batched))
    /\ UNCHANGED now

PairClose ==
  PairCall("close", <<>>, Simple_close(log.simple), Batched_close(log.batched))
    /\ UNCHANGED now

PairClear ==
  PairCall("clear", <<>>, Simple_clear(log.simple), Batched_clear(log.batched))
    /\ UNCHANGED now

PairAppend ==
  /\ log.simple.open => Len(log.simple.transactions) < MaxTxn
  /\ \E data \in Data, ta \in Tick(now) :
       \E tc \in Tick(ta) :
         /\ PairCall("append", <<data>>, Simple_append(log.simple, data, ta),
                     Batched_appendCommit(log.batched, data, ta, tc))
         /\ now' = IF Simple_append(log.simple, data, ta).err = NoError THEN tc ELSE now

PairCountTransactions ==
  PairCall("countTransactions", <<>>, Simple_countTransactions(log.simple),
           Batched_countTransactions(log.batched))
    /\ UNCHANGED now

PairGetSeqRangeTransactions ==
  /\ \E startId \in StartIds, finishId \in FinishIds :
       PairCall("getSeqRangeTransactions", <<startId, finishId>>,
                Simple_getSeqRangeTransactions(log.simple, startId, finishId),
                Batched_getSeqRangeTransactions(log.batched, startId, finishId))
  /\ UNCHANGED now

\* replay(callback, simulateTime?) called on both, up to the loops.
PairReplay ==
  /\ ~rp.active
  /\ \E simulateTime \in {Omitted, <<FALSE>>, <<TRUE>>}, touches \in BOOLEAN :
       LET RS == Replay_check(log.simple)
           RB == Replay_check(log.batched)
       IN /\ last' = [op |-> "replay", args |-> <<simulateTime, touches>>,
                      simple |-> Outcome(RS, <<>>), batched |-> Outcome(RB, <<>>)]
          /\ rp' = IF RS.err = Pending /\ RB.err = Pending
                   THEN [active |-> TRUE,
                         simple |-> Replay_enter(log.simple, simulateTime, touches),
                         batched |-> Replay_enter(log.batched, simulateTime, touches)]
                   ELSE rp
  /\ UNCHANGED <<variant, log, now, history>>

\* One iteration of each loop, with the same visitor: where it writes, it appends
\* on the simple log and appends then commits on the batched one.
PairReplayStep ==
  /\ rp.active
  /\ Replay_hasNext(log.simple, rp.simple)
  /\ Replay_hasNext(log.batched, rp.batched)
  /\ \E start \in (IF TruthyBoolean(rp.simple.simulateTime) THEN Tick(now) ELSE {now}),
        writes \in (IF rp.simple.touches /\ Len(log.simple.transactions) < MaxTxn
                    THEN BOOLEAN ELSE {FALSE}) :
       \E ta \in (IF writes THEN Tick(start) ELSE {start}) :
         \E tc \in (IF writes THEN Tick(ta) ELSE {ta}) :
           \E finish \in (IF TruthyBoolean(rp.simple.simulateTime) THEN Tick(tc)
                          ELSE {tc}) :
             /\ rp' = [active |-> TRUE,
                       simple |->
                         Replay_setTimeout(Replay_visit(log.simple, rp.simple, start),
                                           At(log.simple.transactions, rp.simple.i),
                                           At(log.simple.transactions, rp.simple.i + 1),
                                           start, finish),
                       batched |->
                         Replay_setTimeout(Replay_visit(log.batched, rp.batched, start),
                                           At(log.batched.transactions, rp.batched.i),
                                           At(log.batched.transactions, rp.batched.i + 1),
                                           start, finish)]
             /\ log' = IF writes
                       THEN [simple |-> Simple_append(log.simple, VisitorData, ta).log,
                             batched |-> Batched_appendCommit(log.batched, VisitorData,
                                                              ta, tc).log]
                       ELSE log
             /\ now' = finish
  /\ UNCHANGED <<variant, last, history>>

\* Both loops are over: both promises resolve.
PairReplayReturn ==
  /\ rp.active
  /\ ~Replay_hasNext(log.simple, rp.simple)
  /\ ~Replay_hasNext(log.batched, rp.batched)
  /\ last' = [last EXCEPT
                !.simple = Outcome(Return(<<>>, <<>>, <<>>), rp.simple.visits),
                !.batched = Outcome(Return(<<>>, <<>>, <<>>), rp.batched.visits)]
  /\ rp' = Idle
  /\ UNCHANGED <<variant, log, now, history>>

NextPair ==
  \/ PairOpen
  \/ PairClose
  \/ PairClear
  \/ PairAppend
  \/ PairCountTransactions
  \/ PairGetSeqRangeTransactions
  \/ PairReplay
  \/ PairReplayStep
  \/ PairReplayReturn

\* The two objects driven by the same calls.
SpecPair == InitPair /\ [][NextPair]_vars

(* ------------------- calls that are not awaited ------------------------ *)

\* A caller makes calls on one object back-to-back, without awaiting the promise
\* each returns, and lets the promise jobs run in between as it pleases.  Here
\* `variant` is "unawaited", `log` holds the class, the object and `awaited`, the
\* object as the same calls leave it when each one is awaited before the next is
\* made; `rp.jobs` holds the promise jobs not run yet, and `last` the error of the
\* latest call in both runs.

\* The methods that change an object, and one that reads it.
Methods(class) ==
  IF class = "batched"
  THEN {"open", "close", "clear", "append", "commit", "countTransactions"}
  ELSE {"open", "close", "clear", "append", "countTransactions"}

\* The methods that read the clock.
ReadsClock == {"append", "commit"}

\* Every method is declared async but the batched append, which returns void.
IsAsync(class, op) == ~(class = "batched" /\ op = "append")

\* The whole body of method `op`, run on L.
Method_body(class, op, L, data, t) ==
  IF class = "batched"
  THEN CASE op = "open" -> Batched_open(L)
         [] op = "close" -> Batched_close(L)
         [] op = "clear" -> Batched_clear(L)
         [] op = "append" -> Batched_append(L, data, t)
         [] op = "commit" -> Batched_commit(L, t)
         [] op = "countTransactions" -> Batched_countTransactions(L)
  ELSE CASE op = "open" -> Simple_open(L)
         [] op = "close" -> Simple_close(L)
         [] op = "clear" -> Simple_clear(L)
         [] op = "append" -> Simple_append(L, data, t)
         [] op = "countTransactions" -> Simple_countTransactions(L)

\* Methods whose body begins with an await: the call returns its promise with
\* nothing done yet.
Method_start_awaitsFirst(class, op, L, data, t) ==
  IF IsAsync(class, op) THEN Running(L) ELSE Method_body(class, op, L, data, t)

\* What runs inside the call, before the caller has the promise: an async body
\* runs up to its first await, and no body contains one, so all of it.
Method_start(class, op, L, data, t) == Method_body(class, op, L, data, t)

\* The promise job a call leaves behind: the rest of its body if the call did not
\* get to the end of it, and the settling of its promise.
Job(op, data, t, R) ==
  IF R.err = Pending
  THEN [pending |-> TRUE, op |-> op, data |-> data, t |-> t]
  ELSE [pending |-> FALSE, op |-> op]

\* A promise job run on L.
Method_resume(class, job, L) ==
  IF job.pending THEN Method_body(class, job.op, L, job.data, job.t).log ELSE L

RECURSIVE RunJobs(_, _, _)
\* The jobs run in order, from L.
RunJobs(class, jobs, L) ==
  IF jobs = <<>> THEN L
  ELSE RunJobs(class, Tail(jobs), Method_resume(class, Head(jobs), L))

InitUnawaited ==
  /\ variant = "unawaited"
  /\ \E class \in {"batched", "simple"} :
       LET L == IF class = "batched" THEN Batched_new(BatchedHooks)
                ELSE Simple_new(SimpleHooks)
       IN log = [class |-> class, object |-> L, awaited |-> L]
  /\ now = 0
  /\ last = [op |-> "new", err |-> NoError, awaitedErr |-> NoError]
  /\ rp = [active |-> FALSE, jobs |-> <<>>]
  /\ history = <<>>

\* A call made without waiting for the calls before it.
UnawaitedCall ==
  /\ Len(rp.jobs) < MaxPending
  /\ \E op \in Methods(log.class), data \in Data :
       \E t \in (IF op \in ReadsClock THEN Tick(now) ELSE {now}) :
         LET R == Method_start(log.class, op, log.object, data, t)
             A == Method_body(log.class, op, log.awaited, data, t)
         IN /\ (op = "append" /\ A.err = NoError) =>
                 Len(log.awaited.transactions)
                   + (IF log.class = "batched" THEN Len(log.awaited.buffer) ELSE 0)
                   < MaxTxn
            /\ log' = [log EXCEPT !.object = R.log, !.awaited = A.log]
            /\ last' = [op |-> op, err |-> R.err, awaitedErr |-> A.err]
            /\ rp' = [rp EXCEPT !.jobs = IF IsAsync(log.class, op)
                                         THEN Append(rp.jobs, Job(op, data, t, R))
                                         ELSE rp.jobs]
            /\ now' = t
  /\ UNCHANGED <<variant, history>>

\* The caller's code has returned or reached an await: the promise jobs run.
RunPromiseJobs ==
  /\ rp.jobs # <<>>
  /\ log' = [log EXCEPT !.object = RunJobs(log.class, rp.jobs, log.object)]
  /\ rp' = [rp EXCEPT !.jobs = <<>>]
  /\ UNCHANGED <<variant, now, last, history>>

NextUnawaited ==
  \/ UnawaitedCall
  \/ RunPromiseJobs

\* One object and a caller that does not await.
SpecUnawaited == InitUnawaited /\ [][NextUnawaited]_vars

(* ------------------------------- claims -------------------------------- *)

\* The latest call was `op`, made on the batched log.
BatchedCalled(op) == variant = "batched" /\ last.op = op

\* The integers lo, lo+1, ..., lo+n-1 as a sequence.
Range(lo, n) == [i \in 1..n |-> lo + i - 1]

\* C1: on the batched log a commit() made while Open with b > 0 buffered entries
\* succeeds, raises countTransactions() by b and countCommits() by exactly 1, empties
\* the buffer, and the committed transactions gained are the buffered ones in
\* append order.
C1_CommitMovesBuffer ==
  (BatchedCalled("commit") /\ last.pre.open /\ Len(last.pre.buffer) > 0) =>
    /\ last.err = NoError
    /\ Batched_countTransactions(log).ret
         = Batched_countTransactions(last.pre).ret + Len(last.pre.buffer)
    /\ Batched_countCommits(log).ret = Batched_countCommits(last.pre).ret + 1
    /\ log.buffer = <<>>
    /\ log.transactions = last.pre.transactions \o last.pre.buffer
    /\ log.open

\* A commit of two buffered entries has succeeded.
C1_Witness ==
  /\ BatchedCalled("commit")
  /\ last.err = NoError
  /\ Len(last.pre.buffer) >= 2
  /\ last.pre.buffer[1].data # last.pre.buffer[2].data

\* C2: the Commit record a successful commit() stores, which is the one oncommit
\* receives, lists the IDs priorTxnCount+1 .. priorTxnCount+bufferLen in ascending
\* order.
C2_CommitIdsContiguous ==
  (BatchedCalled("commit") /\ last.err = NoError) =>
    LET stored == log.commits[Len(log.commits)]
        priorTxnCount == Len(last.pre.transactions)
        bufferLen == Len(last.pre.buffer)
    IN /\ Len(log.commits) = Len(last.pre.commits) + 1
       /\ stored.transactions = Range(priorTxnCount + 1, bufferLen)
       /\ Len(last.hooks) = 1
       /\ last.hooks[1].hook = "oncommit"
       /\ last.hooks[1].args = <<stored>>

\* A commit has succeeded on a log that already held committed transactions.
C2_Witness ==
  /\ BatchedCalled("commit")
  /\ last.err = NoError
  /\ Len(last.pre.transactions) >= 1
  /\ log.commits[Len(log.commits)].transactions[1] > 1

\* C8: commit() on an Open batched log with an empty buffer fails with the
\* EmptyBuffer error, changes nothing, leaves the log Open and fires no hook; no
\* commit without transactions is ever stored.
C8_EmptyCommitRejected ==
  /\ (BatchedCalled("commit") /\ last.pre.open /\ Len(last.pre.buffer) = 0) =>
       /\ last.err = BUFFER_EMPTY_CANNOT_COMMIT_MESSAGE
       /\ log = last.pre
       /\ log.open
       /\ last.hooks = <<>>
  /\ variant = "batched" =>
       \A k \in 1..Len(log.commits) : Len(log.commits[k].transactions) > 0

\* A commit with nothing buffered was refused on a log that holds commits.
C8_Witness ==
  /\ BatchedCalled("commit")
  /\ last.err = BUFFER_EMPTY_CANNOT_COMMIT_MESSAGE
  /\ Len(log.commits) >= 1

\* The methods that need an open log.
NeedOpen ==
  {"append", "commit", "countCommits", "countTransactions", "replay",
   "getSeqRangeTransactions", "getSeqRangeCommits"}

\* C3: in both variants, on a Closed log each of append, commit, countCommits,
\* countTransactions, replay, getSeqRangeTransactions and getSeqRangeCommits fails
\* with the LogClosed error, whatever its arguments and the buffer are, changes
\* nothing, fires no hook and calls no visitor.
C3_ClosedRejectsAll ==
  /\ (last.op \in NeedOpen /\ ~last.pre.open) =>
       /\ last.err = LOG_CLOSED_MESSAGE
       /\ log = last.pre
       /\ last.ret = <<>>
       /\ last.hooks = <<>>
       /\ last.visits = <<>>
  /\ ~log.open =>
       /\ Replay_check(log) = Throw(log, LOG_CLOSED_MESSAGE)
       /\ ~rp.active

\* A range query with startId < 1 was refused as LogClosed on a Closed log that
\* holds committed transactions.
C3_Witness ==
  /\ BatchedCalled("getSeqRangeCommits")
  /\ ~last.pre.open
  /\ last.args[1] < 1
  /\ last.err = LOG_CLOSED_MESSAGE
  /\ Len(log.transactions) >= 1

\* The elements of arr at the 1-based positions lo..hi, in order.
Between(arr, lo, hi) == [j \in 1..Max(hi - lo + 1, 0) |-> arr[lo + j - 1]]

\* The last ID a range query asked for, among n stored.
UpTo(finishId, n) == IF finishId = Omitted THEN n ELSE Min(finishId[1], n)

\* The latest call is a range query `op` made on an Open log with startId >= 1 and
\* finishId omitted or >= startId.
ForwardRange(op) ==
  /\ last.op = op
  /\ last.pre.open
  /\ last.args[1] >= 1
  /\ (last.args[2] = Omitted \/ last.args[2][1] >= last.args[1])

\* C4: in both variants getSeqRangeTransactions(startId, finishId) with
\* startId >= 1 and finishId >= startId or omitted returns the committed
\* transactions with IDs startId..min(finishId, N) in ascending order, without an
\* error and without a buffered entry.
C4_TransactionRange ==
  ForwardRange("getSeqRangeTransactions") =>
    LET N == Len(last.pre.transactions)
    IN /\ last.err = NoError
       /\ last.ret = Between(last.pre.transactions, last.args[1], UpTo(last.args[2], N))
       /\ log = last.pre

\* A query whose finishId lies beyond the end returned the one committed
\* transaction while another entry was buffered.
C4_Witness ==
  /\ BatchedCalled("getSeqRangeTransactions")
  /\ last.err = NoError
  /\ Len(log.buffer) >= 1
  /\ last.args[2] # Omitted
  /\ last.args[2][1] > Len(log.transactions)
  /\ Len(last.ret) = 1
  /\ last.ret[1].data # log.buffer[1].data

\* C5: on the batched log getSeqRangeCommits(startId, finishId) with startId >= 1
\* and finishId >= startId or omitted returns one CommitInfo per commit with ID in
\* startId..min(finishId, M), ascending; its id is the commit's position, its time
\* the commit's time and its transactions the entries buffered at that commit, in
\* append order.
C5_CommitRange ==
  (variant = "batched" /\ ForwardRange("getSeqRangeCommits")) =>
    LET M == Len(history)
        startId == last.args[1]
    IN /\ last.err = NoError
       /\ Len(last.pre.commits) = M
       /\ Len(last.ret) = Max(UpTo(last.args[2], M) - startId + 1, 0)
       /\ \A j \in 1..Len(last.ret) :
            /\ last.ret[j].id = startId + j - 1
            /\ last.ret[j].time = history[startId + j - 1].time
            /\ last.ret[j].transactions = history[startId + j - 1].batch
       /\ log = last.pre

\* A query from startId 2 returned the second commit, taken at another time than
\* the first.
C5_Witness ==
  /\ BatchedCalled("getSeqRangeCommits")
  /\ last.err = NoError
  /\ last.args[1] = 2
  /\ Len(last.ret) = 1
  /\ last.ret[1].time # log.commits[1].time
  /\ last.ret[1].transactions[1].data # log.transactions[1].data

\* C7: clear() on an Open log fails with the LogOpen error and changes nothing;
\* on a Closed log it empties commits, transactions and buffer and leaves the log
\* Closed; with nothing committed since, both counts are 0; the first commit made
\* since has commit ID 1 and transaction IDs starting at 1 (simple log: the first
\* append since is transaction 1).
C7_ClearResets ==
  /\ (last.op = "clear" /\ last.pre.open) =>
       /\ last.err = LOG_OPEN_CANNOT_CLEAR_MESSAGE
       /\ log = last.pre
       /\ last.hooks = <<>>
  /\ (last.op = "clear" /\ ~last.pre.open) =>
       /\ last.err = NoError
       /\ log.transactions = <<>>
       /\ variant = "batched" => (log.commits = <<>> /\ log.buffer = <<>>)
       /\ ~log.open
  /\ (last.op \in {"countTransactions", "countCommits"} /\ last.err = NoError
        /\ history = <<>>) =>
       last.ret = 0
  /\ (BatchedCalled("commit") /\ last.err = NoError /\ Len(history) = 1) =>
       /\ Len(log.commits) = 1
       /\ log.commits[1].transactions[1] = 1
       /\ Batched_getSeqRangeCommits(log, 1, Omitted).ret[1].id = 1
       /\ Len(log.transactions) = Len(log.commits[1].transactions)
  /\ (variant = "simple" /\ last.op = "append" /\ last.err = NoError
        /\ Len(history) = 1) =>
       Len(log.transactions) = 1

\* clear() has just discarded a commit and a buffered entry of a Closed log.
C7_Witness ==
  /\ BatchedCalled("clear")
  /\ last.err = NoError
  /\ Len(last.pre.commits) >= 1
  /\ Len(last.pre.buffer) >= 1

\* C9: in both variants the log starts Closed; open() succeeds exactly from Closed
\* and makes it Open, close() succeeds exactly from Open and makes it Closed; the
\* refused calls fail with AlreadyOpen and AlreadyClosed; isOpen() returns the flag
\* and never fails; none of the three changes commits, transactions or buffer.
C9_OpenClose ==
  /\ last.op = "new" => ~log.open
  /\ last.op = "open" =>
       IF last.pre.open
       THEN last.err = LOG_ALREADY_OPEN_MESSAGE /\ log = last.pre
       ELSE last.err = NoError /\ log = [last.pre EXCEPT !.open = TRUE]
  /\ last.op = "close" =>
       IF last.pre.open
       THEN last.err = NoError /\ log = [last.pre EXCEPT !.open = FALSE]
       ELSE last.err = LOG_ALREADY_CLOSED_MESSAGE /\ log = last.pre
  /\ last.op = "isOpen" =>
       last.err = NoError /\ last.ret = last.pre.open /\ log = last.pre

\* close() was refused on a Closed simple log that holds transactions.
C9_Witness ==
  /\ variant = "simple"
  /\ last.op = "close"
  /\ last.err = LOG_ALREADY_CLOSED_MESSAGE
  /\ Len(log.transactions) >= 1

\* C10: on an Open log the range queries fail with InvalidSequenceId for every
\* startId < 1, whatever finishId is, returning nothing and changing nothing, and
\* never fail with it for startId >= 1.
C10_InvalidSequenceId ==
  (last.op \in {"getSeqRangeTransactions", "getSeqRangeCommits"} /\ last.pre.open) =>
    IF last.args[1] < 1
    THEN last.err = INVALID_SEQUENCE_ID_MESSAGE /\ last.ret = <<>> /\ log = last.pre
    ELSE last.err # INVALID_SEQUENCE_ID_MESSAGE

\* startId 0 with a valid finishId was refused on an Open simple log that holds
\* transactions.
C10_Witness ==
  /\ variant = "simple"
  /\ last.op = "getSeqRangeTransactions"
  /\ last.args[1] = 0
  /\ last.args[2] # Omitted
  /\ last.args[2][1] >= 1
  /\ last.err = INVALID_SEQUENCE_ID_MESSAGE
  /\ Len(log.transactions) >= 1

\* C6: in both variants a replay on an Open log with a visitor that leaves the log
\* alone calls the visitor once per committed transaction, with its data, in ID
\* order and for no buffered entry, whatever simulateTime is, and changes nothing.
C6_ReplayVisitsCommitted ==
  /\ (last.op = "replay" /\ last.err = NoError /\ ~last.args[2]) =>
       /\ last.visits = [j \in 1..Len(last.pre.transactions) |->
                           last.pre.transactions[j].data]
       /\ log = last.pre
  /\ (rp.active /\ ~rp.touches) =>
       /\ log = rp.pre
       /\ rp.visits = [j \in 1..rp.i |-> log.transactions[j].data]

\* A replay with simulateTime has returned after visiting two committed
\* transactions in order.
C6_Witness ==
  /\ last.op = "replay"
  /\ last.err = NoError
  /\ ~last.args[2]
  /\ last.args[1] = <<TRUE>>
  /\ Len(last.visits) = 2
  /\ last.visits[1] # last.visits[2]

\* The latest call is a range query `op` made on an Open log with startId >= 1 and
\* a supplied finishId smaller than startId.
BackwardRange(op) ==
  /\ last.op = op
  /\ last.pre.open
  /\ last.args[1] >= 1
  /\ last.args[2] # Omitted
  /\ last.args[2][1] < last.args[1]

\* C11: on an Open log, for every startId >= 1 and every supplied finishId smaller
\* than startId, 0 and negative values included, getSeqRangeTransactions and
\* getSeqRangeCommits return an empty list: a supplied finishId is never taken as
\* omitted.
C11_EmptyBelowStart ==
  (BackwardRange("getSeqRangeTransactions") \/ BackwardRange("getSeqRangeCommits")) =>
    /\ last.err = NoError
    /\ last.ret = <<>>

\* What the read methods of the batched log answer on L: the two counts and, for
\* every range, the outcome and result of the two range queries.
BatchedAnswers(L) ==
  [countTransactions |-> Batched_countTransactions(L).ret,
   countCommits |-> Batched_countCommits(L).ret,
   transactions |->
     [startId \in StartIds, finishId \in FinishIds |->
        LET R == Batched_getSeqRangeTransactions(L, startId, finishId)
        IN [R EXCEPT !.log = <<>>]],
   commits |->
     [startId \in StartIds, finishId \in FinishIds |->
        LET R == Batched_getSeqRangeCommits(L, startId, finishId)
        IN [R EXCEPT !.log = <<>>]]]

\* C12: on the batched log a successful append(data) adds exactly one entry, with
\* that data, at the end of the buffer and leaves the open flag, the commits and the
\* committed transactions as they were; what is buffered has no sequence ID and
\* makes no difference to countTransactions, countCommits, getSeqRangeTransactions,
\* getSeqRangeCommits or the visits of replay.
C12_AppendOnlyBuffers ==
  /\ (BatchedCalled("append") /\ last.err = NoError) =>
       /\ Len(log.buffer) = Len(last.pre.buffer) + 1
       /\ SubSeq(log.buffer, 1, Len(last.pre.buffer)) = last.pre.buffer
       /\ log.buffer[Len(log.buffer)].data = last.args[1]
       /\ log.open = last.pre.open
       /\ log.commits = last.pre.commits
       /\ log.transactions = last.pre.transactions
       /\ BatchedAnswers(log) = BatchedAnswers(last.pre)
  /\ (variant = "batched" /\ log.buffer # <<>>) =>
       BatchedAnswers(log) = BatchedAnswers([log EXCEPT !.buffer = <<>>])
  /\ (variant = "batched" /\ rp.active /\ ~rp.touches) =>
       /\ rp.i <= Len(rp.pre.transactions)
       /\ rp.visits = [j \in 1..rp.i |-> rp.pre.transactions[j].data]
  /\ (BatchedCalled("replay") /\ last.err = NoError /\ ~last.args[2]) =>
       Len(last.visits) = Len(last.pre.transactions)

\* An append has succeeded on a batched log that holds a committed transaction
\* with other data.
C12_Witness ==
  /\ BatchedCalled("append")
  /\ last.err = NoError
  /\ Len(log.transactions) >= 1
  /\ log.transactions[1].data # last.args[1]

\* The latest call was `op`, made on the simple log.
SimpleCalled(op) == variant = "simple" /\ last.op = op

\* C13: on the simple log every successful append(data) raises countTransactions()
\* by exactly 1 and the new transaction is readable at once under the new count as
\* its sequence ID, with no buffer or commit step in between; after n successful
\* appends since the last clear, countTransactions() is n.
C13_SimpleAppendCommits ==
  /\ (SimpleCalled("append") /\ last.err = NoError) =>
       LET count == Simple_countTransactions(log).ret
           read == Simple_getSeqRangeTransactions(log, count, <<count>>)
       IN /\ count = Simple_countTransactions(last.pre).ret + 1
          /\ read.err = NoError
          /\ Len(read.ret) = 1
          /\ read.ret[1].data = last.args[1]
          /\ read.ret[1] = history[Len(history)].batch[1]
          /\ \A k \in 1..Len(last.hooks) : last.hooks[k].hook = "onappend"
          /\ count = Len(history)
  /\ (SimpleCalled("countTransactions") /\ last.err = NoError) =>
       last.ret = Len(history)

\* A second append, with other data than the first, has succeeded on the simple
\* log.
C13_Witness ==
  /\ SimpleCalled("append")
  /\ last.err = NoError
  /\ Len(log.transactions) = 2
  /\ log.transactions[1].data # log.transactions[2].data

\* Whether the sequence `old` is an initial part of the sequence `new`.
IsPrefix(old, new) ==
  /\ Len(old) <= Len(new)
  /\ \A k \in 1..Len(old) : new[k] = old[k]

\* C14: across any call other than a successful clear() (open, close, append,
\* commit, every query, every failed call) the committed transactions and the
\* commits change only by gaining elements at the end: whatever has ID k keeps ID k
\* and its content, and both counts do not decrease.
C14_IdsStable ==
  (last.op # "clear" \/ last.err # NoError) =>
    /\ IsPrefix(last.pre.transactions, log.transactions)
    /\ variant = "batched" => IsPrefix(last.pre.commits, log.commits)
    /\ (last.pre.open /\ log.open) =>
         IF variant = "batched"
         THEN /\ Batched_countTransactions(log).ret >= Batched_countTransactions(last.pre).ret
              /\ Batched_countCommits(log).ret >= Batched_countCommits(last.pre).ret
         ELSE Simple_countTransactions(log).ret >= Simple_countTransactions(last.pre).ret

\* A second commit has succeeded on a batched log, with other data than the first.
C14_Witness ==
  /\ BatchedCalled("commit")
  /\ last.err = NoError
  /\ Len(last.pre.commits) = 1
  /\ Len(log.commits) = 2
  /\ log.transactions[1].data # log.transactions[2].data

\* L holds no half-applied commit: the transactions listed by its latest commit
\* are all committed, and they are the last ones committed.
NoPartialCommit(L) ==
  IF L.commits = <<>>
  THEN L.transactions = <<>>
  ELSE LET ids == L.commits[Len(L.commits)].transactions
       IN ids # <<>> /\ ids[Len(ids)] = Len(L.transactions)

\* C15: commit() on the batched log is atomic for every observer: whatever a read
\* method is run on, and whatever a hook is shown, is the whole state before the
\* commit or the whole state after it, never one where the new Commit is stored
\* without its transactions or where committed transactions are still buffered.
C15_CommitAtomic ==
  variant = "batched" =>
    /\ NoPartialCommit(log)
    /\ \A k \in 1..Len(last.hooks) : NoPartialCommit(last.hooks[k].seen)
    /\ last.op = "commit" =>
         /\ \A k \in 1..Len(last.hooks) : last.hooks[k].seen \in {last.pre, log}
         /\ IF last.err = NoError
            THEN /\ log.buffer = <<>>
                 /\ log.transactions = last.pre.transactions \o last.pre.buffer
                 /\ Len(log.commits) = Len(last.pre.commits) + 1
                 /\ \A k \in 1..Len(last.hooks) : last.hooks[k].seen.buffer = <<>>
            ELSE log = last.pre

\* oncommit has run for a commit of two buffered entries.
C15_Witness ==
  /\ BatchedCalled("commit")
  /\ last.err = NoError
  /\ Len(last.hooks) = 1
  /\ last.hooks[1].hook = "oncommit"
  /\ Len(last.pre.buffer) = 2

\* The hook that belongs to each operation that has one.
HookOf ==
  [open |-> "onopen", close |-> "onclose", clear |-> "onclear",
   append |-> "onappend", commit |-> "oncommit"]

\* C16: in both variants each successful open, close, clear, append and (batched)
\* commit fires its own hook exactly once, within the call and after its state
\* change (inside onopen the log is Open; inside oncommit the new commit is counted
\* and the buffer is empty), onappend with the data and oncommit with the commit;
\* a failed call fires no hook, no call fires another operation's hook, and a hook
\* that was not configured is not called.
C16_HooksFireOnce ==
  /\ (last.op \in DOMAIN HookOf /\ last.err = NoError) =>
       /\ Len(last.hooks) = 1
       /\ last.hooks[1].hook = HookOf[last.op]
       /\ last.hooks[1].seen = log
       /\ last.hooks[1].args =
            IF last.op = "append" THEN <<last.args[1]>>
            ELSE IF last.op = "commit" THEN <<log.commits[Len(log.commits)]>>
            ELSE <<>>
       /\ last.op = "open" => last.hooks[1].seen.open
       /\ last.op = "close" => ~last.hooks[1].seen.open
       /\ last.op = "clear" => last.hooks[1].seen.transactions = <<>>
       /\ last.op = "commit" =>
            /\ Batched_countCommits(last.hooks[1].seen).ret
                 = Batched_countCommits(last.pre).ret + 1
            /\ last.hooks[1].seen.buffer = <<>>
       /\ (variant = "batched" /\ last.op = "append") =>
            /\ Len(last.hooks[1].seen.buffer) = Len(last.pre.buffer) + 1
            /\ last.hooks[1].seen.commits = last.pre.commits
  /\ last.err # NoError => last.hooks = <<>>
  /\ last.op \notin DOMAIN HookOf => last.hooks = <<>>
  /\ LET bare == [log EXCEPT !.callbacks = {}]
     IN IF variant = "batched"
        THEN /\ Batched_open(bare).hooks = <<>>
             /\ Batched_close(bare).hooks = <<>>
             /\ Batched_clear(bare).hooks = <<>>
             /\ \A data \in Data : Batched_append(bare, data, now).hooks = <<>>
             /\ Batched_commit(bare, now).hooks = <<>>
        ELSE /\ Simple_open(bare).hooks = <<>>
             /\ Simple_close(bare).hooks = <<>>
             /\ Simple_clear(bare).hooks = <<>>
             /\ \A data \in Data : Simple_append(bare, data, now).hooks = <<>>

\* onopen has run for the reopening of a batched log that holds a commit.
C16_Witness ==
  /\ BatchedCalled("open")
  /\ last.err = NoError
  /\ Len(last.hooks) = 1
  /\ last.hooks[1].hook = "onopen"
  /\ Len(log.commits) >= 1

\* C17: with simulateTime requested, replay pauses between consecutive
\* transactions: the visitor call for transaction i+1 does not come before the
\* delay handed to setTimeout after the visitor call for transaction i has elapsed.
C17_ReplayPauses ==
  (rp.active /\ TruthyBoolean(rp.simulateTime)) =>
    \A k \in 1..Len(rp.timers) :
      k + 1 <= Len(rp.calls) => rp.calls[k + 1] >= rp.sets[k] + rp.timers[k]

RECURSIVE ConcatIds(_)
\* The transaction-ID lists of the given commits, concatenated in commit order.
ConcatIds(commits) ==
  IF commits = <<>>
  THEN <<>>
  ELSE commits[1].transactions \o ConcatIds(Tail(commits))

\* C18: in every reachable state of the batched log every stored commit lists a
\* non-empty, contiguous, ascending run of IDs, each between 1 and the number of
\* committed transactions; the lists of all commits concatenated in commit order
\* are exactly 1, 2, ..., countTransactions, so every committed transaction belongs
\* to exactly one commit and countCommits <= countTransactions.
C18_CommitsPartitionIds ==
  variant = "batched" =>
    LET N == Len(log.transactions)
    IN /\ \A c \in 1..Len(log.commits) :
            LET ids == log.commits[c].transactions
            IN /\ ids # <<>>
               /\ ids = Range(ids[1], Len(ids))
               /\ \A j \in 1..Len(ids) : 1 <= ids[j] /\ ids[j] <= N
       /\ ConcatIds(log.commits) = Range(1, N)
       /\ \A k \in 1..N :
            Cardinality({c \in 1..Len(log.commits) :
                           \E j \in 1..Len(log.commits[c].transactions) :
                             log.commits[c].transactions[j] = k}) = 1
       /\ Len(log.commits) <= N

\* A Closed batched log holds two commits.
C18_Witness ==
  /\ variant = "batched"
  /\ ~log.open
  /\ Len(log.commits) = 2
  /\ log.commits[2].transactions[1] = 2

\* C19: on the batched log the InvalidCommit error is unreachable: in every
\* reachable Open state, for every startId >= 1 and every finishId,
\* getSeqRangeCommits does not fail; every commit the range selects is found at a
\* position >= 1 and every transaction ID it lists resolves to a committed
\* transaction, so no returned transactions list holds an undefined entry.
C19_InvalidCommitUnreachable ==
  /\ (BatchedCalled("getSeqRangeCommits") /\ last.pre.open /\ last.args[1] >= 1) =>
       /\ last.err = NoError
       /\ \A j \in 1..Len(last.ret) :
            /\ last.ret[j] # [invalid |-> TRUE]
            /\ last.ret[j].id >= 1
            /\ log.commits[last.ret[j].id].time = last.ret[j].time
            /\ \A t \in 1..Len(last.ret[j].transactions) :
                 last.ret[j].transactions[t] # Undefined
  /\ last.err # INVALID_COMMIT_MESSAGE

\* getSeqRangeCommits(1, 0) has returned two CommitInfos.
C19_Witness ==
  /\ BatchedCalled("getSeqRangeCommits")
  /\ last.err = NoError
  /\ last.args = <<1, <<0>>>>
  /\ Len(last.ret) = 2
  /\ last.ret[2].id = 2

\* C20: with simulateTime requested, a replay over N committed transactions hands
\* exactly max(N - 1, 0) delays to setTimeout: one right after the visitor call of
\* each transaction but the last, none after the visitor call of the last, and
\* none at all when N is 0 or 1.
C20_DelaysBetweenOnly ==
  /\ (rp.active /\ TruthyBoolean(rp.simulateTime)) =>
       Len(rp.timers) = Min(rp.i, Max(Len(rp.pre.transactions) - 1, 0))
  /\ (last.op = "replay" /\ last.err = NoError /\ TruthyBoolean(last.args[1])) =>
       Len(last.timers) = Max(Len(last.pre.transactions) - 1, 0)

\* C21: the simple log is the batched log with every append at once followed by
\* commit(): for every sequence of open, close, clear, append, countTransactions,
\* replay and getSeqRangeTransactions calls made on both, every call has the same
\* success or error outcome and the same result on both, the two open flags and the
\* two committed-transaction sequences are the same, and replay calls the visitor
\* with the same data in the same order.
C21_SimpleIsBatchedAutoCommit ==
  /\ last.simple = last.batched
  /\ log.simple.open = log.batched.open
  /\ log.simple.transactions = log.batched.transactions
  /\ log.batched.buffer = <<>>
  /\ rp.active =>
       /\ rp.simple.visits = rp.batched.visits
       /\ Replay_hasNext(log.simple, rp.simple) = Replay_hasNext(log.batched, rp.batched)

\* On both logs a range query has returned the two transactions appended, which
\* differ.
C21_Witness ==
  /\ last.op = "getSeqRangeTransactions"
  /\ last.batched.err = NoError
  /\ Len(last.batched.ret) = 2
  /\ last.batched.ret[1].data # last.batched.ret[2].data
  /\ Len(log.batched.commits) = 2

\* C22: on the batched log close() and open() leave the buffer as it is, so what
\* was appended and not committed before close() is still buffered, in its order,
\* after reopening; a later append goes behind it and the next successful commit()
\* commits all of it in that order; only clear() and commit() remove buffered
\* entries, and clear() on the Closed log discards them without an error.
C22_BufferSurvivesReopen ==
  variant = "batched" =>
    /\ last.op \in {"open", "close"} => log.buffer = last.pre.buffer
    /\ (last.op \notin {"clear", "commit"} \/ last.err # NoError) =>
         IsPrefix(last.pre.buffer, log.buffer)
    /\ (last.op = "append" /\ last.err = NoError) =>
         /\ SubSeq(log.buffer, 1, Len(last.pre.buffer)) = last.pre.buffer
         /\ Len(log.buffer) = Len(last.pre.buffer) + 1
    /\ (last.op = "commit" /\ last.err = NoError) =>
         /\ SubSeq(log.transactions, Len(last.pre.transactions) + 1,
                   Len(log.transactions)) = last.pre.buffer
         /\ history[Len(history)].batch = last.pre.buffer
    /\ (last.op = "clear" /\ ~last.pre.open) =>
         /\ last.err = NoError
         /\ log.buffer = <<>>

\* A batched log has been reopened with two entries still buffered.
C22_Witness ==
  /\ BatchedCalled("open")
  /\ last.err = NoError
  /\ Len(log.buffer) = 2
  /\ log.buffer[1].data # log.buffer[2].data

\* C23: replay calls the visitor exactly as many times as there were committed
\* transactions when replay was called, for both simulateTime settings, also when
\* the visitor itself adds committed transactions to the same log during the
\* traversal; so the traversal never goes past that count.
C23_ReplayVisitsSnapshot ==
  /\ rp.active => Len(rp.visits) <= Len(rp.pre.transactions)
  /\ (last.op = "replay" /\ last.err = NoError) =>
       Len(last.visits) = Len(last.pre.transactions)

====
